---- MODULE Spec2Model ----
(***************************************************************************)
(* The suggestion search of spyll.hunspell.algo.suggest (class Suggest).   *)
(*                                                                         *)
(* A text is a sequence of one-character strings.  The dictionary, the     *)
(* affix settings, the Lookup oracle, the typo generators of               *)
(* spyll.hunspell.algo.permutations and the n-gram / phonetic matchers are *)
(* fixed when the Suggest object is built; every call of suggest_debug is  *)
(* a generator with its own local state, resumed by its consumer.          *)
(***************************************************************************)
EXTENDS Integers, Sequences, FiniteSets, TLC

(***************************************************************************)
(* Texts                                                                   *)
(***************************************************************************)
LowerLetters == {"a", "b"}
UpperLetters == {"A", "B"}
Chars == LowerLetters \cup UpperLetters \cup {" ", "-"}

\* str.upper / str.lower on one character
UpperCh(ch) == CASE ch = "a" -> "A" [] ch = "b" -> "B" [] OTHER -> ch
LowerCh(ch) == CASE ch = "A" -> "a" [] ch = "B" -> "b" [] OTHER -> ch

upper(text) == [i \in 1..Len(text) |-> UpperCh(text[i])]
lower(text) == [i \in 1..Len(text) |-> LowerCh(text[i])]

\* Python's str.capitalize(): first character upper-cased, the rest lower-cased
PyCapitalize(text) ==
    IF text = <<>> THEN <<>>
    ELSE <<UpperCh(text[1])>> \o lower(SubSeq(text, 2, Len(text)))

\* Python's "sub in text"
Contains(sub, text) ==
    \E i \in 0..(Len(text) - Len(sub)) : SubSeq(text, i + 1, i + Len(sub)) = sub

\* Python's separator.join(words)
RECURSIVE Join(_, _)
Join(words, separator) ==
    IF words = <<>> THEN <<>>
    ELSE IF Len(words) = 1 THEN words[1]
    ELSE words[1] \o <<separator>> \o Join(Tail(words), separator)

\* Python's text.split(separator)
RECURSIVE SplitAt(_, _, _)
SplitAt(text, separator, acc) ==
    IF text = <<>> THEN <<acc>>
    ELSE IF Head(text) = separator THEN <<acc>> \o SplitAt(Tail(text), separator, <<>>)
    ELSE SplitAt(Tail(text), separator, Append(acc, Head(text)))

Split(text, separator) == SplitAt(text, separator, <<>>)

RECURSIVE FlatMap(_, _)
FlatMap(Op(_), seq) ==
    IF seq = <<>> THEN <<>> ELSE Op(Head(seq)) \o FlatMap(Op, Tail(seq))

Range(seq) == {seq[i] : i \in DOMAIN seq}

(***************************************************************************)
(* State                                                                   *)
(***************************************************************************)
VARIABLES
    \* the Suggest object and its collaborators (shared by all calls)
    aff,              \* self.aff: the settings read from the .aff file
    dic,              \* self.dic.words: the dictionary entries, in file order
    lookup,           \* self.lookup: the forms the oracle accepts as one unbroken token
    pmt,              \* results of the typo generators of the permutations module
    ngram_suggest,    \* ranking of the n-gram matcher
    phonet_suggest,   \* ranking of the phonetic matcher
    replacements,     \* self.replacements
    use_dash,         \* self.use_dash
    ncalls,           \* how many calls of suggest the client makes
    \* one generator per call of suggest_debug
    pc,               \* where the generator stands
    word,             \* the argument of the call
    captype,
    variants,
    idx,              \* index of the variant being processed (1-based)
    todo,             \* accepted suggestions of the running loop not yet handled
    handled,
    good,
    very_good,
    ngrams_seen,
    phonet_seen,
    out,              \* the Suggestions yielded so far
    yielded           \* suspended at a yield: the consumer holds the last Suggestion

shared == <<aff, dic, lookup, pmt, ngram_suggest, phonet_suggest, replacements, use_dash, ncalls>>
locals == <<pc, word, captype, variants, idx, todo, handled, good, very_good,
            ngrams_seen, phonet_seen, out, yielded>>
vars == <<shared, locals>>

\* src/spyll/hunspell/algo/suggest.py:11
MAXPHONSUGS == 2

\* A flag that the .aff file does not configure (None)
NoFlag == ""

(***************************************************************************)
(* Value types                                                             *)
(***************************************************************************)
Suggestion(text, source, allow_break) ==
    [text |-> text, source |-> source, allow_break |-> allow_break]

MultiWordSuggestion(words, source, allow_dash) ==
    [words |-> words, source |-> source, allow_dash |-> allow_dash]

\* isinstance(suggestion, MultiWordSuggestion)
IsMultiWord(suggestion) == "words" \in DOMAIN suggestion

\* MultiWordSuggestion.stringify: allow_break takes Suggestion's default
stringify(suggestion, separator) ==
    Suggestion(Join(suggestion.words, separator), suggestion.source, TRUE)

RepPattern(pattern, replacement) == [pattern |-> pattern, replacement |-> replacement]

Word(stem, flags, phonetic) == [stem |-> stem, flags |-> flags, phonetic |-> phonetic]

(***************************************************************************)
(* Collaborators                                                           *)
(***************************************************************************)
\* aff.collation: capitalization class of a word
guess(w) ==
    IF lower(w) = w THEN "NO"
    ELSE IF <<LowerCh(w[1])>> \o SubSeq(w, 2, Len(w)) = lower(w) THEN "INIT"
    ELSE IF upper(w) = w THEN "ALL"
    ELSE IF LowerCh(w[1]) # w[1] THEN "HUHINIT"
    ELSE "HUH"

lowerfirst(w) == <<LowerCh(w[1])>> \o SubSeq(w, 2, Len(w))

\* aff.collation.capitalize: the capitalized forms of a word
capitalize(w) == << <<UpperCh(w[1])>> \o lower(SubSeq(w, 2, Len(w))) >>

\* aff.collation.corrections: (captype, variants); the word itself comes first
corrections(w) ==
    LET cap == guess(w)
        vs  == CASE cap = "NO"      -> <<w>>
                 [] cap = "INIT"    -> <<w, lower(w)>>
                 [] cap = "HUHINIT" -> <<w, lowerfirst(w), lower(w)>> \o capitalize(w)
                 [] cap = "HUH"     -> <<w, lower(w)>>
                 [] OTHER           -> <<w, lower(w)>> \o capitalize(w)
    IN  <<cap, vs>>

\* aff.collation.coerce: rewrite the case of a found word to the class of the input
coerce(text, cap) ==
    IF cap \in {"INIT", "HUHINIT"} THEN <<UpperCh(text[1])>> \o SubSeq(text, 2, Len(text))
    ELSE IF cap = "ALL" THEN upper(text)
    ELSE text

\* dic.has_flag: some homonym of the word carries the flag
has_flag(w, flag) == \E i \in DOMAIN dic : dic[i].stem = w /\ flag \in dic[i].flags

\* self.lookup(word, allow_nosuggest=False, capitalization=..., allow_break=...):
\* the word is an accepted form as it stands or, when breaking is allowed, it
\* breaks at dashes into accepted forms
Lookup(w, allow_break) ==
    \/ w \in lookup
    \/ /\ allow_break
       /\ "-" \in Range(w)
       /\ \A part \in Range(Split(w, "-")) : part \in lookup

\* aff.OCONV(text): a conversion table replaces characters
ConvCh(table, ch) ==
    IF \E i \in DOMAIN table : table[i].pattern = ch
    THEN table[CHOOSE i \in DOMAIN table :
                  table[i].pattern = ch /\ \A j \in 1..(i - 1) : table[j].pattern # ch].replacement
    ELSE ch

OCONV(text) == [i \in 1..Len(text) |-> ConvCh(aff.OCONV, text[i])]

\* permutations.twowords: every split of the word into two non-empty words
twowords(w) ==
    [i \in 1..(Len(w) - 1) |-> <<SubSeq(w, 1, i), SubSeq(w, i + 1, Len(w))>>]

\* permutations.replchars: every replacement of an occurrence of a pattern of the
\* table; a replacement holding "_" gives the list of the words it separates
Replaced(w, i, pat) ==
    LET text == SubSeq(w, 1, i - 1)
                    \o [k \in 1..Len(pat.replacement) |->
                            IF pat.replacement[k] = "_" THEN " " ELSE pat.replacement[k]]
                    \o SubSeq(w, i + Len(pat.pattern), Len(w))
    IN  IF " " \in Range(text) THEN [list |-> Split(text, " ")] ELSE [str |-> text]

RECURSIVE Matches(_, _, _)
Matches(w, pat, i) ==
    IF i + Len(pat.pattern) - 1 > Len(w) THEN <<>>
    ELSE IF SubSeq(w, i, i + Len(pat.pattern) - 1) = pat.pattern
         THEN <<Replaced(w, i, pat)>> \o Matches(w, pat, i + Len(pat.pattern))
         ELSE Matches(w, pat, i + 1)

replchars(w, reptable) ==
    IF Len(w) < 2 \/ reptable = <<>> THEN <<>>
    ELSE LET ForPattern(pat) == Matches(w, pat, 1) IN FlatMap(ForPattern, reptable)

\* the generators of single-word edits: what each returns for a word
edits(method, w) == pmt[method][w]

(***************************************************************************)
(* Suggest: the helpers nested in suggest_debug                            *)
(***************************************************************************)
\* is_good_suggestion: no call site passes capitalization, so it is always False
is_good_suggestion(w, allow_break) == Lookup(w, allow_break)

\* Faulty variant of filter_one: the words of a MultiWordSuggestion are checked with
\* breaking allowed.
filter_one_with_break(suggestion) ==
    IF IsMultiWord(suggestion)
    THEN IF \A i \in DOMAIN suggestion.words : is_good_suggestion(suggestion.words[i], TRUE)
         THEN <<stringify(suggestion, " ")>>
                  \o (IF suggestion.allow_dash THEN <<stringify(suggestion, "-")>> ELSE <<>>)
         ELSE <<>>
    ELSE IF is_good_suggestion(suggestion.text, suggestion.allow_break)
         THEN <<suggestion>>
         ELSE <<>>

\* what filter_suggestions yields for one suggestion
filter_one(suggestion) ==
    IF IsMultiWord(suggestion)
    THEN IF \A i \in DOMAIN suggestion.words : is_good_suggestion(suggestion.words[i], FALSE)
         THEN <<stringify(suggestion, " ")>>
                  \o (IF suggestion.allow_dash THEN <<stringify(suggestion, "-")>> ELSE <<>>)
         ELSE <<>>
    ELSE IF is_good_suggestion(suggestion.text, suggestion.allow_break)
         THEN <<suggestion>>
         ELSE <<>>

filter_suggestions(suggestions) == FlatMap(filter_one, suggestions)

is_forbidden(w) == aff.FORBIDDENWORD # NoFlag /\ has_flag(w, aff.FORBIDDENWORD)

\* Faulty variant of found_text: a coerced text that is forbidden is not given up for
\* the original.
found_text_without_revert(suggestion, cap) ==
    IF (aff.KEEPCASE # NoFlag /\ ~aff.CHECKSHARPS) /\ has_flag(suggestion.text, aff.KEEPCASE)
    THEN suggestion.text
    ELSE coerce(suggestion.text, cap)

\* handle_found up to the forbidden check: the text in the capitalization to return
found_text(suggestion, cap) ==
    IF (aff.KEEPCASE # NoFlag /\ ~aff.CHECKSHARPS) /\ has_flag(suggestion.text, aff.KEEPCASE)
    THEN suggestion.text
    ELSE LET text == coerce(suggestion.text, cap)
         IN  IF text # suggestion.text /\ is_forbidden(text) THEN suggestion.text ELSE text

\* Faulty variant of handle_found: the text is recorded after the output conversion.
handle_found_recording_converted(seen, cap, suggestion, check_inclusion) ==
    LET text == found_text(suggestion, cap)
        conv == IF aff.OCONV # <<>> THEN OCONV(text) ELSE text
        nothing == [handled |-> seen, yields |-> <<>>]
    IN  IF is_forbidden(text) THEN nothing
        ELSE IF text \in seen THEN nothing
        ELSE IF check_inclusion
                /\ \E previous \in seen : Contains(lower(previous), lower(text))
             THEN nothing
        ELSE [handled |-> seen \cup {conv},
              yields  |-> << [suggestion EXCEPT !.text = conv] >>]

\* Faulty variant of handle_found: the test of the handled set is left out.
handle_found_without_handled_test(seen, cap, suggestion, check_inclusion) ==
    LET text == found_text(suggestion, cap)
        nothing == [handled |-> seen, yields |-> <<>>]
    IN  IF is_forbidden(text) THEN nothing
        ELSE IF check_inclusion
                /\ \E previous \in seen : Contains(lower(previous), lower(text))
             THEN nothing
        ELSE [handled |-> seen \cup {text},
              yields  |-> << [suggestion EXCEPT
                                 !.text = IF aff.OCONV # <<>> THEN OCONV(text) ELSE text] >>]

\* Faulty variant of handle_found: the forbidden check is left out.
handle_found_without_forbidden_check(seen, cap, suggestion, check_inclusion) ==
    LET text == found_text(suggestion, cap)
        nothing == [handled |-> seen, yields |-> <<>>]
    IN  IF text \in seen THEN nothing
        ELSE IF check_inclusion
                /\ \E previous \in seen : Contains(lower(previous), lower(text))
             THEN nothing
        ELSE [handled |-> seen \cup {text},
              yields  |-> << [suggestion EXCEPT
                                 !.text = IF aff.OCONV # <<>> THEN OCONV(text) ELSE text] >>]

\* handle_found: the handled set it leaves and the Suggestions it yields (none or one)
handle_found(seen, cap, suggestion, check_inclusion) ==
    LET text == found_text(suggestion, cap)
        nothing == [handled |-> seen, yields |-> <<>>]
    IN  IF is_forbidden(text) THEN nothing
        ELSE IF text \in seen THEN nothing
        ELSE IF check_inclusion
                /\ \E previous \in seen : Contains(lower(previous), lower(text))
             THEN nothing
        ELSE [handled |-> seen \cup {text},
              yields  |-> << [suggestion EXCEPT
                                 !.text = IF aff.OCONV # <<>> THEN OCONV(text) ELSE text] >>]

(***************************************************************************)
(* Suggest: the permutations of each tier                                  *)
(***************************************************************************)
Tagged(texts, source) == [i \in 1..Len(texts) |-> Suggestion(texts[i], source, TRUE)]

\* very_good_permutations offering the dash join whatever use_dash says
very_good_permutations_always_dash(w) ==
    LET ForWords(words) ==
            <<Suggestion(Join(words, " "), "spaceword", TRUE),
              Suggestion(Join(words, "-"), "spaceword", FALSE)>>
    IN  FlatMap(ForWords, twowords(w))

very_good_permutations(w) ==
    LET ForWords(words) ==
            <<Suggestion(Join(words, " "), "spaceword", TRUE)>>
                \o (IF use_dash
                    THEN <<Suggestion(Join(words, "-"), "spaceword", FALSE)>>
                    ELSE <<>>)
    IN  FlatMap(ForWords, twowords(w))

good_permutations(w) ==
    LET ForRep(suggestion) ==
            IF "list" \in DOMAIN suggestion
            THEN <<Suggestion(Join(suggestion.list, " "), "replchars", TRUE),
                   MultiWordSuggestion(suggestion.list, "replchars", FALSE)>>
            ELSE <<Suggestion(suggestion.str, "replchars", TRUE)>>
        ForPh(suggestion) ==
            IF "list" \in DOMAIN suggestion
            THEN <<MultiWordSuggestion(suggestion.list, "replchars/ph", FALSE)>>
            ELSE <<Suggestion(suggestion.str, "replchars/ph", TRUE)>>
    IN  <<Suggestion(upper(w), "uppercase", TRUE)>>
            \o FlatMap(ForRep, replchars(w, aff.REP))
            \o FlatMap(ForPh, replchars(w, replacements))

\* the single-word generators of questionable_permutations, in the order of their loops
QuestionableEdits ==
    <<"mapchars", "swapchar", "longswapchar", "badcharkey", "extrachar",
      "forgotchar", "movechar", "badchar", "doubletwochars">>

\* Faulty variant of questionable_permutations: the split is never joined by a dash.
questionable_permutations_without_dash(w) ==
    LET ForMethod(method) == Tagged(edits(method, w), method)
        ForPair(suggestion_pair) ==
            <<MultiWordSuggestion(suggestion_pair, "twowords", FALSE)>>
    IN  FlatMap(ForMethod, QuestionableEdits)
            \o (IF ~aff.NOSPLITSUGS THEN FlatMap(ForPair, twowords(w)) ELSE <<>>)

questionable_permutations(w) ==
    LET ForMethod(method) == Tagged(edits(method, w), method)
        ForPair(suggestion_pair) ==
            <<MultiWordSuggestion(suggestion_pair, "twowords", use_dash)>>
    IN  FlatMap(ForMethod, QuestionableEdits)
            \o (IF ~aff.NOSPLITSUGS THEN FlatMap(ForPair, twowords(w)) ELSE <<>>)

\* the roots given to both matchers: entries carrying none of the bad flags
roots ==
    LET bad_flags == {aff.FORBIDDENWORD, aff.NOSUGGEST, aff.ONLYINCOMPOUND} \ {NoFlag}
    IN  SelectSeq(dic, LAMBDA entry : bad_flags \cap entry.flags = {})

\* ngram_suggestions: the matcher ranks forms of the roots (the dictionaries of the
\* model declare no affixes, so a root has the one form, its stem) and leaves out
\* the known ones
ngram_suggestions(w, seen) ==
    LET known == {lower(h) : h \in seen}
    IN  SelectSeq(ngram_suggest,
                  LAMBDA form : (\E i \in DOMAIN roots : roots[i].stem = form)
                                /\ lower(form) \notin known)

phonet_suggestions(w) ==
    IF ~aff.PHONE THEN <<>>
    ELSE SelectSeq(phonet_suggest, LAMBDA form : \E i \in DOMAIN roots : roots[i].stem = form)

(***************************************************************************)
(* suggest_debug: one action per step of the generator                     *)
(***************************************************************************)
Calls == {1, 2}

\* Faulty variant of Yield: the handled set is one set shared by all the calls.
Yield_into_shared_handled(c, found) ==
    /\ handled' = [d \in Calls |-> handled[d] \cup found.handled]
    /\ out' = [out EXCEPT ![c] = @ \o found.yields]
    /\ yielded' = [yielded EXCEPT ![c] = found.yields # <<>>]

\* the generator yields what handle_found yields and is suspended there
Yield(c, found) ==
    /\ handled' = [handled EXCEPT ![c] = found.handled]
    /\ out' = [out EXCEPT ![c] = @ \o found.yields]
    /\ yielded' = [yielded EXCEPT ![c] = found.yields # <<>>]

\* the generator runs on without yielding
Silent(c) ==
    /\ yielded' = [yielded EXCEPT ![c] = FALSE]
    /\ UNCHANGED <<handled, out>>

\* Faulty variant of Start: handled is kept across the calls instead of being local.
Start_with_shared_handled(c, w) ==
    /\ pc[c] = "new"
    /\ c <= ncalls
    /\ \A d \in Calls : d < c => pc[d] \in {"done", "closed"}
    /\ word' = [word EXCEPT ![c] = w]
    /\ handled' = [handled EXCEPT ![c] = UNION {handled[d] : d \in Calls}]
    /\ captype' = [captype EXCEPT ![c] = corrections(w)[1]]
    /\ variants' = [variants EXCEPT ![c] = corrections(w)[2]]
    /\ good' = [good EXCEPT ![c] = FALSE]
    /\ very_good' = [very_good EXCEPT ![c] = FALSE]
    /\ pc' = [pc EXCEPT ![c] = "forceucase"]
    /\ UNCHANGED <<idx, todo, ngrams_seen, phonet_seen, out, yielded, shared>>

\* The consumer asks for the first suggestion: the body starts (lines 111, 163-166).
\* Calls are made one after the other.
Start(c, w) ==
    /\ pc[c] = "new"
    /\ c <= ncalls
    /\ \A d \in Calls : d < c => pc[d] \in {"done", "closed"}
    /\ word' = [word EXCEPT ![c] = w]
    /\ handled' = [handled EXCEPT ![c] = {}]
    /\ captype' = [captype EXCEPT ![c] = corrections(w)[1]]
    /\ variants' = [variants EXCEPT ![c] = corrections(w)[2]]
    /\ good' = [good EXCEPT ![c] = FALSE]
    /\ very_good' = [very_good EXCEPT ![c] = FALSE]
    /\ pc' = [pc EXCEPT ![c] = "forceucase"]
    /\ UNCHANGED <<idx, todo, ngrams_seen, phonet_seen, out, yielded, shared>>

\* Faulty variant of ForceUCase: no return after the forceucase suggestion.
ForceUCase_without_return(c) ==
    /\ pc[c] = "forceucase"
    /\ LET accepted == IF aff.FORCEUCASE # NoFlag /\ captype[c] = "NO"
                       THEN SelectSeq(capitalize(word[c]),
                                      LAMBDA capitalized : is_good_suggestion(capitalized, TRUE))
                       ELSE <<>>
       IN  IF accepted # <<>>
           THEN Yield(c, handle_found(handled[c], captype[c],
                             Suggestion(PyCapitalize(accepted[1]), "forceucase", TRUE), FALSE))
           ELSE Silent(c)
    /\ idx' = [idx EXCEPT ![c] = 1]
    /\ pc' = [pc EXCEPT ![c] = IF variants[c] # <<>> THEN "case" ELSE "fallback"]
    /\ UNCHANGED <<word, captype, variants, todo, good, very_good, ngrams_seen,
                   phonet_seen, shared>>

\* lines 171-178: the FORCEUCASE special case, else the loop over the variants begins
ForceUCase(c) ==
    /\ pc[c] = "forceucase"
    /\ LET accepted == IF aff.FORCEUCASE # NoFlag /\ captype[c] = "NO"
                       THEN SelectSeq(capitalize(word[c]),
                                      LAMBDA capitalized : is_good_suggestion(capitalized, TRUE))
                       ELSE <<>>
       IN  IF accepted # <<>>
           THEN LET found == handle_found(handled[c], captype[c],
                                 Suggestion(PyCapitalize(accepted[1]), "forceucase", TRUE),
                                 FALSE)
                IN  /\ Yield(c, found)
                    /\ pc' = [pc EXCEPT ![c] =
                                 IF found.yields # <<>> THEN "forceucase_return" ELSE "done"]
                    /\ UNCHANGED idx
           ELSE /\ Silent(c)
                /\ idx' = [idx EXCEPT ![c] = 1]
                /\ pc' = [pc EXCEPT ![c] = IF variants[c] # <<>> THEN "case" ELSE "fallback"]
    /\ UNCHANGED <<word, captype, variants, todo, good, very_good, ngrams_seen,
                   phonet_seen, shared>>

\* line 175: resumed after the forceucase suggestion, the generator returns
ForceUCaseReturn(c) ==
    /\ pc[c] = "forceucase_return"
    /\ Silent(c)
    /\ pc' = [pc EXCEPT ![c] = "done"]
    /\ UNCHANGED <<word, captype, variants, idx, todo, good, very_good, ngrams_seen,
                   phonet_seen, shared>>

\* Faulty variant of Case: the first variant is suggested as well when it is accepted.
Case_for_every_variant(c) ==
    /\ pc[c] = "case"
    /\ LET variant == variants[c][idx[c]]
       IN  /\ IF is_good_suggestion(variant, TRUE)
              THEN Yield(c, handle_found(handled[c], captype[c],
                                         Suggestion(variant, "case", TRUE), FALSE))
              ELSE Silent(c)
           /\ todo' = [todo EXCEPT ![c] = filter_suggestions(good_permutations(variant))]
    /\ pc' = [pc EXCEPT ![c] = "good"]
    /\ UNCHANGED <<word, captype, variants, idx, good, very_good, ngrams_seen,
                   phonet_seen, shared>>

\* lines 178-181: the variant itself, when it is not the first one
Case(c) ==
    /\ pc[c] = "case"
    /\ LET variant == variants[c][idx[c]]
       IN  /\ IF idx[c] > 1 /\ is_good_suggestion(variant, TRUE)
              THEN Yield(c, handle_found(handled[c], captype[c],
                                         Suggestion(variant, "case", TRUE), FALSE))
              ELSE Silent(c)
           /\ todo' = [todo EXCEPT ![c] = filter_suggestions(good_permutations(variant))]
    /\ pc' = [pc EXCEPT ![c] = "good"]
    /\ UNCHANGED <<word, captype, variants, idx, good, very_good, ngrams_seen,
                   phonet_seen, shared>>

\* Faulty variant of Good: the good flag is set for every accepted permutation, yielded
\* or not.
Good_marking_accepted(c) ==
    /\ pc[c] = "good"
    /\ IF todo[c] # <<>>
       THEN /\ Yield(c, handle_found(handled[c], captype[c], Head(todo[c]), FALSE))
            /\ good' = [good EXCEPT ![c] = TRUE]
            /\ todo' = [todo EXCEPT ![c] = Tail(@)]
            /\ UNCHANGED pc
       ELSE /\ Silent(c)
            /\ todo' = [todo EXCEPT ![c] =
                           filter_suggestions(very_good_permutations(variants[c][idx[c]]))]
            /\ pc' = [pc EXCEPT ![c] = "very_good"]
            /\ UNCHANGED good
    /\ UNCHANGED <<word, captype, variants, idx, very_good, ngrams_seen, phonet_seen, shared>>

\* lines 184-188: the loop over the good permutations
Good(c) ==
    /\ pc[c] = "good"
    /\ IF todo[c] # <<>>
       THEN LET found == handle_found(handled[c], captype[c], Head(todo[c]), FALSE)
            IN  /\ Yield(c, found)
                /\ good' = [good EXCEPT ![c] = @ \/ found.yields # <<>>]
                /\ todo' = [todo EXCEPT ![c] = Tail(@)]
                /\ UNCHANGED pc
       ELSE /\ Silent(c)
            /\ todo' = [todo EXCEPT ![c] =
                           filter_suggestions(very_good_permutations(variants[c][idx[c]]))]
            /\ pc' = [pc EXCEPT ![c] = "very_good"]
            /\ UNCHANGED good
    /\ UNCHANGED <<word, captype, variants, idx, very_good, ngrams_seen, phonet_seen, shared>>

\* Faulty variant of VeryGood: `continue` instead of `return` when a very good
\* permutation was found.
VeryGood_with_continue(c) ==
    /\ pc[c] = "very_good"
    /\ IF todo[c] # <<>>
       THEN LET found == handle_found(handled[c], captype[c], Head(todo[c]), FALSE)
            IN  /\ Yield(c, found)
                /\ very_good' = [very_good EXCEPT ![c] = @ \/ found.yields # <<>>]
                /\ todo' = [todo EXCEPT ![c] = Tail(@)]
                /\ UNCHANGED <<pc, idx>>
       ELSE /\ Silent(c)
            /\ IF very_good[c]
               THEN /\ UNCHANGED todo
                    /\ IF idx[c] < Len(variants[c])
                       THEN /\ idx' = [idx EXCEPT ![c] = @ + 1]
                            /\ pc' = [pc EXCEPT ![c] = "case"]
                       ELSE /\ pc' = [pc EXCEPT ![c] = "fallback"]
                            /\ UNCHANGED idx
               ELSE /\ pc' = [pc EXCEPT ![c] = "questionable"]
                    /\ todo' = [todo EXCEPT ![c] =
                           filter_suggestions(questionable_permutations(variants[c][idx[c]]))]
                    /\ UNCHANGED idx
            /\ UNCHANGED very_good
    /\ UNCHANGED <<word, captype, variants, good, ngrams_seen, phonet_seen, shared>>

\* Faulty variant of VeryGood: no return when a very good permutation was found.
VeryGood_without_return(c) ==
    /\ pc[c] = "very_good"
    /\ IF todo[c] # <<>>
       THEN LET found == handle_found(handled[c], captype[c], Head(todo[c]), FALSE)
            IN  /\ Yield(c, found)
                /\ very_good' = [very_good EXCEPT ![c] = @ \/ found.yields # <<>>]
                /\ todo' = [todo EXCEPT ![c] = Tail(@)]
                /\ UNCHANGED pc
       ELSE /\ Silent(c)
            /\ pc' = [pc EXCEPT ![c] = "questionable"]
            /\ todo' = [todo EXCEPT ![c] =
                           filter_suggestions(questionable_permutations(variants[c][idx[c]]))]
            /\ UNCHANGED very_good
    /\ UNCHANGED <<word, captype, variants, idx, good, ngrams_seen, phonet_seen, shared>>

\* lines 193-200: the loop over the very good permutations, and the return after it
VeryGood(c) ==
    /\ pc[c] = "very_good"
    /\ IF todo[c] # <<>>
       THEN LET found == handle_found(handled[c], captype[c], Head(todo[c]), FALSE)
            IN  /\ Yield(c, found)
                /\ very_good' = [very_good EXCEPT ![c] = @ \/ found.yields # <<>>]
                /\ todo' = [todo EXCEPT ![c] = Tail(@)]
                /\ UNCHANGED pc
       ELSE /\ Silent(c)
            /\ IF very_good[c]
               THEN /\ pc' = [pc EXCEPT ![c] = "done"]
                    /\ UNCHANGED todo
               ELSE /\ pc' = [pc EXCEPT ![c] = "questionable"]
                    /\ todo' = [todo EXCEPT ![c] =
                           filter_suggestions(questionable_permutations(variants[c][idx[c]]))]
            /\ UNCHANGED very_good
    /\ UNCHANGED <<word, captype, variants, idx, good, ngrams_seen, phonet_seen, shared>>

\* Faulty variant of Questionable: the generator looks for the next suggestion before
\* it yields, and so leaves the tier with the last suggestion of the tier.
Questionable_running_ahead(c) ==
    /\ pc[c] = "questionable"
    /\ LET leave == /\ IF idx[c] < Len(variants[c])
                       THEN /\ idx' = [idx EXCEPT ![c] = @ + 1]
                            /\ pc' = [pc EXCEPT ![c] = "case"]
                       ELSE /\ pc' = [pc EXCEPT ![c] = "fallback"]
                            /\ UNCHANGED idx
       IN  IF todo[c] # <<>>
           THEN /\ Yield(c, handle_found(handled[c], captype[c], Head(todo[c]), FALSE))
                /\ todo' = [todo EXCEPT ![c] = Tail(@)]
                /\ IF Tail(todo[c]) = <<>> THEN leave ELSE UNCHANGED <<pc, idx>>
           ELSE /\ Silent(c)
                /\ leave
                /\ UNCHANGED todo
    /\ UNCHANGED <<word, captype, variants, good, very_good, ngrams_seen, phonet_seen, shared>>

\* Faulty variant of Questionable: a questionable suggestion sets the good flag.
Questionable_setting_good(c) ==
    /\ pc[c] = "questionable"
    /\ IF todo[c] # <<>>
       THEN LET found == handle_found(handled[c], captype[c], Head(todo[c]), FALSE)
            IN  /\ Yield(c, found)
                /\ good' = [good EXCEPT ![c] = @ \/ found.yields # <<>>]
                /\ todo' = [todo EXCEPT ![c] = Tail(@)]
                /\ UNCHANGED <<pc, idx>>
       ELSE /\ Silent(c)
            /\ IF idx[c] < Len(variants[c])
               THEN /\ idx' = [idx EXCEPT ![c] = @ + 1]
                    /\ pc' = [pc EXCEPT ![c] = "case"]
               ELSE /\ pc' = [pc EXCEPT ![c] = "fallback"]
                    /\ UNCHANGED idx
            /\ UNCHANGED <<todo, good>>
    /\ UNCHANGED <<word, captype, variants, very_good, ngrams_seen, phonet_seen, shared>>

\* lines 204-205 and back to 178: the loop over the questionable permutations
Questionable(c) ==
    /\ pc[c] = "questionable"
    /\ IF todo[c] # <<>>
       THEN /\ Yield(c, handle_found(handled[c], captype[c], Head(todo[c]), FALSE))
            /\ todo' = [todo EXCEPT ![c] = Tail(@)]
            /\ UNCHANGED <<pc, idx>>
       ELSE /\ Silent(c)
            /\ IF idx[c] < Len(variants[c])
               THEN /\ idx' = [idx EXCEPT ![c] = @ + 1]
                    /\ pc' = [pc EXCEPT ![c] = "case"]
               ELSE /\ pc' = [pc EXCEPT ![c] = "fallback"]
                    /\ UNCHANGED idx
            /\ UNCHANGED todo
    /\ UNCHANGED <<word, captype, variants, good, very_good, ngrams_seen, phonet_seen, shared>>

\* Faulty variant of Fallback: the good flag is not looked at.
Fallback_ignoring_good(c) ==
    /\ pc[c] = "fallback"
    /\ Silent(c)
    /\ IF very_good[c] \/ aff.MAXNGRAMSUGS = 0
       THEN /\ pc' = [pc EXCEPT ![c] = "done"]
            /\ UNCHANGED <<todo, ngrams_seen>>
       ELSE /\ pc' = [pc EXCEPT ![c] = "ngram"]
            /\ ngrams_seen' = [ngrams_seen EXCEPT ![c] = 0]
            /\ todo' = [todo EXCEPT ![c] =
                           Tagged(ngram_suggestions(word[c], handled[c]), "ngram")]
    /\ UNCHANGED <<word, captype, variants, idx, good, very_good, phonet_seen, shared>>

\* Faulty variant of Fallback: MAXNGRAMSUGS = 0 does not end the search.
Fallback_ignoring_zero(c) ==
    /\ pc[c] = "fallback"
    /\ Silent(c)
    /\ IF very_good[c] \/ good[c]
       THEN /\ pc' = [pc EXCEPT ![c] = "done"]
            /\ UNCHANGED <<todo, ngrams_seen>>
       ELSE /\ pc' = [pc EXCEPT ![c] = "ngram"]
            /\ ngrams_seen' = [ngrams_seen EXCEPT ![c] = 0]
            /\ todo' = [todo EXCEPT ![c] =
                           Tagged(ngram_suggestions(word[c], handled[c]), "ngram")]
    /\ UNCHANGED <<word, captype, variants, idx, good, very_good, phonet_seen, shared>>

\* Faulty variant of Fallback: the phonetic matcher is asked before the n-gram matcher.
Fallback_with_phonet_first(c) ==
    /\ pc[c] = "fallback"
    /\ Silent(c)
    /\ IF very_good[c] \/ good[c] \/ aff.MAXNGRAMSUGS = 0
       THEN /\ pc' = [pc EXCEPT ![c] = "done"]
            /\ UNCHANGED <<todo, ngrams_seen>>
       ELSE /\ pc' = [pc EXCEPT ![c] = "ngram"]
            /\ ngrams_seen' = [ngrams_seen EXCEPT ![c] = 0]
            /\ todo' = [todo EXCEPT ![c] =
                           Tagged(phonet_suggestions(word[c]), "phonet")
                               \o Tagged(ngram_suggestions(word[c], handled[c]), "ngram")]
    /\ UNCHANGED <<word, captype, variants, idx, good, very_good, phonet_seen, shared>>

\* lines 207-214: after the variants, return or start the n-gram matcher
Fallback(c) ==
    /\ pc[c] = "fallback"
    /\ Silent(c)
    /\ IF very_good[c] \/ good[c] \/ aff.MAXNGRAMSUGS = 0
       THEN /\ pc' = [pc EXCEPT ![c] = "done"]
            /\ UNCHANGED <<todo, ngrams_seen>>
       ELSE /\ pc' = [pc EXCEPT ![c] = "ngram"]
            /\ ngrams_seen' = [ngrams_seen EXCEPT ![c] = 0]
            /\ todo' = [todo EXCEPT ![c] =
                           Tagged(ngram_suggestions(word[c], handled[c]), "ngram")]
    /\ UNCHANGED <<word, captype, variants, idx, good, very_good, phonet_seen, shared>>

\* lines 224-225: the phonetic matcher starts
StartPhonet(c) ==
    /\ pc' = [pc EXCEPT ![c] = "phonet"]
    /\ phonet_seen' = [phonet_seen EXCEPT ![c] = 0]
    /\ todo' = [todo EXCEPT ![c] = Tagged(phonet_suggestions(word[c]), "phonet")]

\* lines 214-219: one suggestion of the n-gram matcher
Ngram(c) ==
    /\ pc[c] = "ngram"
    /\ IF todo[c] # <<>>
       THEN LET found == handle_found(handled[c], captype[c], Head(todo[c]), TRUE)
            IN  /\ Yield(c, found)
                /\ IF found.yields # <<>>
                   THEN /\ ngrams_seen' = [ngrams_seen EXCEPT ![c] = @ + 1]
                        /\ pc' = [pc EXCEPT ![c] = "ngram_seen"]
                        /\ todo' = [todo EXCEPT ![c] = Tail(@)]
                        /\ UNCHANGED phonet_seen
                   ELSE /\ UNCHANGED ngrams_seen
                        /\ IF ngrams_seen[c] >= aff.MAXNGRAMSUGS
                           THEN StartPhonet(c)
                           ELSE /\ todo' = [todo EXCEPT ![c] = Tail(@)]
                                /\ UNCHANGED <<pc, phonet_seen>>
       ELSE /\ Silent(c)
            /\ StartPhonet(c)
            /\ UNCHANGED ngrams_seen
    /\ UNCHANGED <<word, captype, variants, idx, good, very_good, shared>>

\* lines 218-219: resumed after an n-gram suggestion, the limit is checked
NgramSeen(c) ==
    /\ pc[c] = "ngram_seen"
    /\ Silent(c)
    /\ IF ngrams_seen[c] >= aff.MAXNGRAMSUGS
       THEN StartPhonet(c)
       ELSE /\ pc' = [pc EXCEPT ![c] = "ngram"]
            /\ UNCHANGED <<todo, phonet_seen>>
    /\ UNCHANGED <<word, captype, variants, idx, good, very_good, ngrams_seen, shared>>

\* Faulty variant of Phonet: handle_found is called without check_inclusion.
Phonet_without_inclusion(c) ==
    /\ pc[c] = "phonet"
    /\ IF todo[c] # <<>>
       THEN LET found == handle_found(handled[c], captype[c], Head(todo[c]), FALSE)
            IN  /\ Yield(c, found)
                /\ todo' = [todo EXCEPT ![c] = Tail(@)]
                /\ IF found.yields # <<>>
                   THEN /\ phonet_seen' = [phonet_seen EXCEPT ![c] = @ + 1]
                        /\ pc' = [pc EXCEPT ![c] = "phonet_seen"]
                   ELSE /\ UNCHANGED phonet_seen
                        /\ pc' = [pc EXCEPT ![c] =
                                     IF phonet_seen[c] >= MAXPHONSUGS THEN "done" ELSE "phonet"]
       ELSE /\ Silent(c)
            /\ pc' = [pc EXCEPT ![c] = "done"]
            /\ UNCHANGED <<todo, phonet_seen>>
    /\ UNCHANGED <<word, captype, variants, idx, good, very_good, ngrams_seen, shared>>

\* lines 225-230: one suggestion of the phonetic matcher
Phonet(c) ==
    /\ pc[c] = "phonet"
    /\ IF todo[c] # <<>>
       THEN LET found == handle_found(handled[c], captype[c], Head(todo[c]), TRUE)
            IN  /\ Yield(c, found)
                /\ todo' = [todo EXCEPT ![c] = Tail(@)]
                /\ IF found.yields # <<>>
                   THEN /\ phonet_seen' = [phonet_seen EXCEPT ![c] = @ + 1]
                        /\ pc' = [pc EXCEPT ![c] = "phonet_seen"]
                   ELSE /\ UNCHANGED phonet_seen
                        /\ pc' = [pc EXCEPT ![c] =
                                     IF phonet_seen[c] >= MAXPHONSUGS THEN "done" ELSE "phonet"]
       ELSE /\ Silent(c)
            /\ pc' = [pc EXCEPT ![c] = "done"]
            /\ UNCHANGED <<todo, phonet_seen>>
    /\ UNCHANGED <<word, captype, variants, idx, good, very_good, ngrams_seen, shared>>

\* Faulty variant of PhonetSeen: the limit is not checked.
PhonetSeen_without_limit(c) ==
    /\ pc[c] = "phonet_seen"
    /\ Silent(c)
    /\ pc' = [pc EXCEPT ![c] = "phonet"]
    /\ UNCHANGED <<word, captype, variants, idx, todo, good, very_good, ngrams_seen,
                   phonet_seen, shared>>

\* lines 229-230: resumed after a phonetic suggestion, the limit is checked
PhonetSeen(c) ==
    /\ pc[c] = "phonet_seen"
    /\ Silent(c)
    /\ pc' = [pc EXCEPT ![c] = IF phonet_seen[c] >= MAXPHONSUGS THEN "done" ELSE "phonet"]
    /\ UNCHANGED <<word, captype, variants, idx, todo, good, very_good, ngrams_seen,
                   phonet_seen, shared>>

\* the consumer stops iterating and drops the suspended generator
Abandon(c) ==
    /\ yielded[c]
    /\ pc' = [pc EXCEPT ![c] = "closed"]
    /\ yielded' = [yielded EXCEPT ![c] = FALSE]
    /\ UNCHANGED <<word, captype, variants, idx, todo, handled, good, very_good,
                   ngrams_seen, phonet_seen, out, shared>>

(***************************************************************************)
(* Suggest.__init__ and the dictionaries the model is run with             *)
(***************************************************************************)
\* line 72
UseDash(try) == "-" \in Range(try) \/ "a" \in Range(try)

\* lines 60-65
Replacements(words) ==
    LET ForWord(entry) ==
            [i \in 1..Len(entry.phonetic) |-> RepPattern(entry.phonetic[i], entry.stem)]
    IN  FlatMap(ForWord, words)

W_ab == <<"a", "b">>
W_Ab == <<"A", "b">>
W_AB == <<"A", "B">>
Words == {W_ab, W_Ab, W_AB}

T_a == <<"a">>
T_b == <<"b">>
T_ba == <<"b", "a">>
T_bab == <<"b", "a", "b">>
T_a_b == <<"a", " ", "b">>
T_a_dash_b == <<"a", "-", "b">>

T_Ba == <<"B", "a">>

\* the largest MAXNGRAMSUGS of a fixture, and the most forms a fixture's oracle accepts
MaxNgramSugs == 2
MaxAccepted == 2

\* no generator of single-word edits returns anything
NoEdits == [method \in Range(QuestionableEdits) |-> [w \in Words |-> <<>>]]

Pmts ==
    {NoEdits,
     [NoEdits EXCEPT !["swapchar"][W_ab] = <<T_ba>>],
     [NoEdits EXCEPT !["forgotchar"][W_ab] = <<T_bab, T_ba>>],
     [NoEdits EXCEPT !["badcharkey"][W_Ab] = <<T_ba>>],
     [NoEdits EXCEPT !["badcharkey"][W_ab] = <<W_Ab>>]}

LookupForms == {W_ab, W_Ab, W_AB, T_a, T_b, T_ba, T_bab, T_a_b, T_a_dash_b}

Lookups ==
    {forms \in SUBSET LookupForms : Cardinality(forms) <= MaxAccepted}
        \cup {{T_a, T_b, T_a_b}, {T_a, T_b, T_a_dash_b}, {T_a, T_b, T_ba}}

BaseAff ==
    [FORCEUCASE |-> NoFlag, TRY |-> <<"a">>, NOSPLITSUGS |-> FALSE, MAXNGRAMSUGS |-> 1,
     PHONE |-> TRUE, KEEPCASE |-> "K", CHECKSHARPS |-> FALSE, FORBIDDENWORD |-> "F",
     NOSUGGEST |-> "N", ONLYINCOMPOUND |-> NoFlag, OCONV |-> <<>>, REP |-> <<>>]

BaseDic ==
    <<Word(T_bab, {}, <<>>), Word(T_ba, {}, <<>>), Word(T_b, {}, <<>>), Word(T_a, {}, <<>>)>>

Base ==
    [aff |-> BaseAff, dic |-> BaseDic, lookup |-> {}, pmt |-> NoEdits,
     ngram |-> <<T_bab, T_ba>>, phonet |-> <<T_ba, T_b>>]

Rankings == {<<>>, <<T_ba>>, <<T_b, T_ba, T_bab>>, <<T_bab, T_ba, T_b, T_a>>}

\* the settings of word splitting
SplitFixtures ==
    {[Base EXCEPT !.aff.TRY = try, !.aff.NOSPLITSUGS = nosplit, !.lookup = forms, !.pmt = p] :
        try \in {<<>>, <<"-">>, <<"a">>}, nosplit \in BOOLEAN, forms \in Lookups, p \in Pmts}

\* the replacement tables: REP of the .aff file and the ph: fields of the entries
ReplFixtures ==
    {[Base EXCEPT !.aff.REP = rep, !.aff.TRY = try, !.dic = BaseDic \o ph, !.lookup = forms] :
        rep \in {<<>>, <<RepPattern(<<"b">>, <<"_", "b">>)>>, <<RepPattern(W_ab, T_ba)>>,
                 <<RepPattern(<<"b">>, <<"-", "a", "_", "b">>)>>},
        try \in {<<>>, <<"a">>},
        ph \in {<<>>, <<Word(T_ba, {}, <<W_ab>>)>>, <<Word(T_a_b, {}, <<W_ab>>)>>},
        forms \in Lookups}

\* the settings of the two matchers
FallbackFixtures ==
    {[Base EXCEPT !.aff.MAXNGRAMSUGS = max, !.aff.PHONE = phone, !.ngram = ng, !.phonet = ph,
                  !.dic = d, !.lookup = forms, !.pmt = p] :
        max \in 0..MaxNgramSugs, phone \in BOOLEAN, ng \in Rankings, ph \in Rankings,
        d \in {BaseDic, <<Word(T_bab, {"N"}, <<>>)>> \o Tail(BaseDic)},
        forms \in {{}, {W_AB}, {T_ba}, {T_a, T_b}},
        p \in {NoEdits, [NoEdits EXCEPT !["swapchar"][W_ab] = <<T_ba>>]}}

\* the settings handle_found reads: flagged homonyms, KEEPCASE, CHECKSHARPS, OCONV
FlaggedDics ==
    {BaseDic}
        \cup {BaseDic \o <<Word(t, {"F"}, <<>>)>> : t \in {W_AB, W_Ab, T_ba, T_Ba, T_a_b}}
        \cup {BaseDic \o <<Word(t, {"K"}, <<>>)>> : t \in {W_ab, T_ba}}
        \cup {BaseDic \o <<Word(T_ba, {"K"}, <<>>), Word(T_Ba, {"F"}, <<>>)>>}

FoundFixtures ==
    {[Base EXCEPT !.aff.FORBIDDENWORD = forbidden, !.aff.CHECKSHARPS = sharps,
                  !.aff.OCONV = oconv, !.aff.FORCEUCASE = force,
                  !.dic = d, !.lookup = forms, !.pmt = p] :
        forbidden \in {NoFlag, "F"}, sharps \in BOOLEAN,
        oconv \in {<<>>, <<RepPattern("-", " ")>>}, force \in {NoFlag, "U"},
        d \in FlaggedDics,
        forms \in {{W_ab}, {W_Ab}, {W_AB}, {T_ba}, {T_a_b}, {T_a, T_b}, {W_ab, W_AB}, {W_Ab, W_AB}},
        p \in {NoEdits, [NoEdits EXCEPT !["swapchar"][W_ab] = <<T_ba>>]}}

\* structural suggestions of which one is a part of the other, before the matchers
InclusionFixtures ==
    {[Base EXCEPT !.aff.MAXNGRAMSUGS = max, !.ngram = ng, !.phonet = ph,
                  !.lookup = {T_b, T_bab},
                  !.pmt = [NoEdits EXCEPT !["extrachar"][W_ab] = <<T_b>>,
                                          !["forgotchar"][W_ab] = <<T_bab>>]] :
        max \in 0..MaxNgramSugs, ng \in Rankings, ph \in Rankings}

Fixtures ==
    SplitFixtures \cup ReplFixtures \cup FallbackFixtures \cup FoundFixtures
        \cup InclusionFixtures

InitCalls ==
    /\ pc = [c \in Calls |-> "new"]
    /\ word = [c \in Calls |-> <<>>]
    /\ captype = [c \in Calls |-> "NO"]
    /\ variants = [c \in Calls |-> <<>>]
    /\ idx = [c \in Calls |-> 0]
    /\ todo = [c \in Calls |-> <<>>]
    /\ handled = [c \in Calls |-> {}]
    /\ good = [c \in Calls |-> FALSE]
    /\ very_good = [c \in Calls |-> FALSE]
    /\ ngrams_seen = [c \in Calls |-> 0]
    /\ phonet_seen = [c \in Calls |-> 0]
    /\ out = [c \in Calls |-> <<>>]
    /\ yielded = [c \in Calls |-> FALSE]

InitSuggest(fixture) ==
    /\ aff = fixture.aff
    /\ dic = fixture.dic
    /\ lookup = fixture.lookup
    /\ pmt = fixture.pmt
    /\ ngram_suggest = fixture.ngram
    /\ phonet_suggest = fixture.phonet
    /\ replacements = Replacements(fixture.dic)
    /\ use_dash = UseDash(fixture.aff.TRY)

Init ==
    /\ \E fixture \in Fixtures : InitSuggest(fixture)
    /\ ncalls = 1
    /\ InitCalls

Next ==
    \E c \in Calls :
        \/ \E w \in Words : Start(c, w)
        \/ ForceUCase(c)
        \/ ForceUCaseReturn(c)
        \/ Case(c)
        \/ Good(c)
        \/ VeryGood(c)
        \/ Questionable(c)
        \/ Fallback(c)
        \/ Ngram(c)
        \/ NgramSeen(c)
        \/ Phonet(c)
        \/ PhonetSeen(c)
        \/ Abandon(c)

Spec == Init /\ [][Next]_vars

\* the dictionaries of the runs in which suggest_debug is called twice in a row
SeqFixtures ==
    {[Base EXCEPT !.aff.FORCEUCASE = force, !.aff.MAXNGRAMSUGS = max, !.ngram = ng,
                  !.lookup = forms, !.pmt = p] :
        force \in {NoFlag, "U"}, max \in 0..MaxNgramSugs, ng \in Rankings,
        forms \in {{}, {W_Ab}, {T_ba}, {T_a, T_b}, {W_Ab, W_AB}},
        p \in {NoEdits, [NoEdits EXCEPT !["forgotchar"][W_ab] = <<T_bab, T_ba>>]}}

InitSeq ==
    /\ \E fixture \in SeqFixtures : InitSuggest(fixture)
    /\ ncalls = 2
    /\ InitCalls

SpecSeq == InitSeq /\ [][Next]_vars

\* A second generator is started while the first one is still suspended: the steps
\* of the two calls interleave (lines 111, 163-166, as Start).
StartInterleaved(c, w) ==
    /\ pc[c] = "new"
    /\ c <= ncalls
    /\ \E d \in Calls : d < c /\ pc[d] \notin {"new", "done", "closed"}
    /\ word' = [word EXCEPT ![c] = w]
    /\ handled' = [handled EXCEPT ![c] = {}]
    /\ captype' = [captype EXCEPT ![c] = corrections(w)[1]]
    /\ variants' = [variants EXCEPT ![c] = corrections(w)[2]]
    /\ good' = [good EXCEPT ![c] = FALSE]
    /\ very_good' = [very_good EXCEPT ![c] = FALSE]
    /\ pc' = [pc EXCEPT ![c] = "forceucase"]
    /\ UNCHANGED <<idx, todo, ngrams_seen, phonet_seen, out, yielded, shared>>

\* the dictionaries of the runs with two interleaved calls
ParFixtures ==
    {[Base EXCEPT !.aff.FORCEUCASE = force, !.aff.MAXNGRAMSUGS = max, !.ngram = ng,
                  !.lookup = forms, !.pmt = p] :
        force \in {NoFlag, "U"}, max \in {0, MaxNgramSugs}, ng \in {<<T_bab, T_ba, T_b, T_a>>},
        forms \in {{T_ba}, {T_a, T_b}, {W_Ab, W_AB}},
        p \in {NoEdits, [NoEdits EXCEPT !["forgotchar"][W_ab] = <<T_bab, T_ba>>]}}

InitPar ==
    /\ \E fixture \in ParFixtures : InitSuggest(fixture)
    /\ ncalls = 2
    /\ InitCalls

NextPar ==
    \E c \in Calls :
        \/ \E w \in Words : Start(c, w)
        \/ \E w \in Words : StartInterleaved(c, w)
        \/ ForceUCase(c)
        \/ ForceUCaseReturn(c)
        \/ Case(c)
        \/ Good(c)
        \/ VeryGood(c)
        \/ Questionable(c)
        \/ Fallback(c)
        \/ Ngram(c)
        \/ NgramSeen(c)
        \/ Phonet(c)
        \/ PhonetSeen(c)
        \/ Abandon(c)

SpecPar == InitPar /\ [][NextPar]_vars

(***************************************************************************)
(* Vocabulary of the properties                                            *)
(***************************************************************************)
GoodSources == {"uppercase", "replchars", "replchars/ph"}
QuestionableSources == Range(QuestionableEdits) \cup {"twowords"}
FallbackSources == {"ngram", "phonet"}

\* the generator is in the code after line 208
InFallbacks(c) == pc[c] \in {"ngram", "ngram_seen", "phonet", "phonet_seen"}

\* the call ran to its end: out[c] is the whole output of suggest
Done(c) == pc[c] = "done"

Sources(c) == {out[c][i].source : i \in DOMAIN out[c]}
Texts(c) == [i \in DOMAIN out[c] |-> out[c][i].text]

\* the text handle_found emits for a text it records in handled
Converted(text) == IF aff.OCONV # <<>> THEN OCONV(text) ELSE text

\* what the oracle accepts of each tier for the k-th variant of call c
AcceptedGood(c, k) == filter_suggestions(good_permutations(variants[c][k]))
AcceptedVeryGood(c, k) == filter_suggestions(very_good_permutations(variants[c][k]))
AcceptedQuestionable(c, k) == filter_suggestions(questionable_permutations(variants[c][k]))

(***************************************************************************)
(* C1                                                                      *)
(***************************************************************************)
\* C1 as stated: no two emitted texts are equal under case-insensitive comparison.
C1_NoCaseInsensitiveDuplicates ==
    \A c \in Calls : \A i, j \in DOMAIN out[c] :
        i < j => lower(out[c][i].text) # lower(out[c][j].text)

\* C1 amended: every emitted suggestion comes from a different handled text, so no
\* two emitted suggestions are equal as case-coerced texts before output conversion,
\* and the emitted texts themselves are pairwise different when no OCONV table is
\* configured.
C1_NoExactDuplicates ==
    \A c \in Calls :
        /\ Cardinality(handled[c]) = Len(out[c])
        /\ \A i \in DOMAIN out[c] : \E h \in handled[c] : out[c][i].text = Converted(h)
        /\ aff.OCONV = <<>> =>
               \A i, j \in DOMAIN out[c] : i < j => out[c][i].text # out[c][j].text

\* a finished call in which the good tier of two variants gave the same text, emitted once
C1_Witness ==
    \E c \in Calls :
        /\ Done(c)
        /\ \E k1, k2 \in DOMAIN variants[c] :
              /\ k1 < k2
              /\ \E s1 \in Range(AcceptedGood(c, k1)), s2 \in Range(AcceptedGood(c, k2)) :
                    /\ found_text(s1, captype[c]) = found_text(s2, captype[c])
                    /\ Cardinality({i \in DOMAIN out[c] :
                           out[c][i].text = Converted(found_text(s1, captype[c]))}) = 1

(***************************************************************************)
(* C2                                                                      *)
(***************************************************************************)
\* C2 as stated: no emitted text is marked forbidden in the dictionary.
C2_NoForbiddenOutput ==
    \A c \in Calls : \A i \in DOMAIN out[c] : ~is_forbidden(out[c][i].text)

\* C2 amended: the forbidden check is made on the case-coerced text before output
\* conversion: no forbidden text is ever recorded in handled, and no emitted text is
\* forbidden when no OCONV table is configured.
C2_NoForbiddenHandled ==
    \A c \in Calls :
        /\ \A h \in handled[c] : ~is_forbidden(h)
        /\ aff.OCONV = <<>> => \A i \in DOMAIN out[c] : ~is_forbidden(out[c][i].text)

\* a finished call in which the oracle accepted a forbidden good-tier candidate
C2_Witness ==
    \E c \in Calls :
        /\ Done(c)
        /\ \E s \in Range(AcceptedGood(c, 1)) :
              /\ is_forbidden(found_text(s, captype[c]))
              /\ found_text(s, captype[c]) \notin handled[c]

(***************************************************************************)
(* C3                                                                      *)
(***************************************************************************)
\* C3 as stated: if the oracle accepts a very-good-tier candidate for some variant,
\* the finished output holds no questionable-tier and no ngram or phonet suggestion.
C3_AcceptedVeryGoodCutsOff ==
    \A c \in Calls :
        (Done(c) /\ idx[c] >= 1
             /\ \E k \in DOMAIN variants[c] : AcceptedVeryGood(c, k) # <<>>)
            => Sources(c) \cap (QuestionableSources \cup FallbackSources) = {}

\* C3 amended: once handle_found has emitted a very-good-tier (spaceword) suggestion
\* (an accepted candidate that is forbidden or already handled does not count), the
\* search ends with the very-good tier of that variant: only spaceword suggestions
\* follow it, the questionable tier of that variant, the later variants and the
\* fallbacks never run; questionable-tier suggestions of earlier variants remain.
C3_EmittedVeryGoodCutsOff ==
    \A c \in Calls :
        (\E i \in DOMAIN out[c] : out[c][i].source = "spaceword")
            => /\ very_good[c]
               /\ pc[c] \in {"very_good", "done", "closed"}
               /\ Sources(c) \cap FallbackSources = {}
               /\ \A i, j \in DOMAIN out[c] :
                      (i < j /\ out[c][i].source = "spaceword")
                          => out[c][j].source = "spaceword"

\* a finished call cut off by a spaceword suggestion although the oracle accepts a
\* questionable-tier candidate of the same variant
C3_Witness ==
    \E c \in Calls :
        /\ Done(c)
        /\ very_good[c]
        /\ out[c][Len(out[c])].source = "spaceword"
        /\ \E s \in Range(AcceptedQuestionable(c, idx[c])) :
              found_text(s, captype[c]) \notin handled[c]

(***************************************************************************)
(* C4                                                                      *)
(***************************************************************************)
\* C4: once a good-tier or very-good-tier suggestion has been emitted (for whichever
\* variant), the generator never enters the n-gram or the phonetic fallback and the
\* output holds no ngram or phonet suggestion.
C4_FallbackGating ==
    \A c \in Calls :
        (Sources(c) \cap (GoodSources \cup {"spaceword"}) # {})
            => /\ ~InFallbacks(c)
               /\ Sources(c) \cap FallbackSources = {}

\* a finished call with a good-tier suggestion only, where the n-gram matcher is
\* enabled and would have returned something new
C4_Witness ==
    \E c \in Calls :
        /\ Done(c)
        /\ good[c] /\ ~very_good[c]
        /\ aff.MAXNGRAMSUGS > 0
        /\ \E i \in DOMAIN ngram_suggestions(word[c], handled[c]) :
              handle_found(handled[c], captype[c],
                           Suggestion(ngram_suggestions(word[c], handled[c])[i], "ngram", TRUE),
                           TRUE).yields # <<>>

(***************************************************************************)
(* C5                                                                      *)
(***************************************************************************)
\* the FORCEUCASE special case applies to call c and the oracle accepts the
\* capitalized form of its word
ForceUCaseApplies(c) ==
    /\ pc[c] \notin {"new", "forceucase"}
    /\ aff.FORCEUCASE # NoFlag
    /\ guess(word[c]) = "NO"
    /\ is_good_suggestion(capitalize(word[c])[1], TRUE)

\* C5 as stated: then the output is exactly the capitalized form, tagged forceucase.
C5_ForceUCaseExactlyOne ==
    \A c \in Calls :
        (ForceUCaseApplies(c) /\ Done(c))
            => out[c] = <<Suggestion(capitalize(word[c])[1], "forceucase", TRUE)>>

\* C5 amended: then no other stage runs and the output is the capitalized form
\* (after output conversion), tagged forceucase, as its only suggestion -- or empty
\* when the capitalized form is forbidden.
C5_ForceUCaseAtMostOne ==
    \A c \in Calls :
        ForceUCaseApplies(c)
            => /\ pc[c] \in {"forceucase_return", "done", "closed"}
               /\ idx[c] = 0
               /\ out[c] = IF is_forbidden(capitalize(word[c])[1])
                           THEN <<>>
                           ELSE <<Suggestion(Converted(capitalize(word[c])[1]),
                                             "forceucase", TRUE)>>

\* a finished call that took the special case although its variant had an accepted
\* good-tier candidate
C5_Witness ==
    \E c \in Calls :
        /\ ForceUCaseApplies(c)
        /\ Done(c)
        /\ Len(out[c]) = 1
        /\ filter_suggestions(good_permutations(word[c])) # <<>>

(***************************************************************************)
(* C6                                                                      *)
(***************************************************************************)
Count(c, source) == Cardinality({i \in DOMAIN out[c] : out[c][i].source = source})

\* C6: at most MAXPHONSUGS (2) emitted suggestions are phonet-sourced and at most
\* MAXNGRAMSUGS are ngram-sourced, whatever the matchers return.
C6_CapEnforcement ==
    \A c \in Calls :
        /\ Count(c, "phonet") <= MAXPHONSUGS
        /\ Count(c, "ngram") <= aff.MAXNGRAMSUGS

\* a finished call that emitted MAXNGRAMSUGS ngram and MAXPHONSUGS phonet suggestions
\* and left a candidate of the phonetic matcher that handle_found would still emit
C6_Witness ==
    \E c \in Calls :
        /\ Done(c)
        /\ Count(c, "ngram") = aff.MAXNGRAMSUGS
        /\ Count(c, "phonet") = MAXPHONSUGS
        /\ \E i \in DOMAIN todo[c] :
              handle_found(handled[c], captype[c], todo[c][i], TRUE).yields # <<>>

(***************************************************************************)
(* C7                                                                      *)
(***************************************************************************)
\* the oracle accepts the k-th variant of call c as a case suggestion
AcceptedCase(c, k) == k > 1 /\ is_good_suggestion(variants[c][k], TRUE)

\* the loop over the variants runs and the only candidates the oracle accepts come
\* from the questionable tier, one at least from a single-word generator
QuestionableOnly(c) ==
    /\ idx[c] >= 1
    /\ \A k \in DOMAIN variants[c] :
          AcceptedGood(c, k) = <<>> /\ AcceptedVeryGood(c, k) = <<>> /\ ~AcceptedCase(c, k)
    /\ \E k \in DOMAIN variants[c] : \E s \in Range(AcceptedQuestionable(c, k)) :
          s.source \in Range(QuestionableEdits)

\* C7 as stated: then the search does not reach the n-gram fallback.
C7_QuestionableStopsFallback ==
    \A c \in Calls : QuestionableOnly(c) => ~InFallbacks(c)

\* C7 amended: then every accepted correction that is not forbidden is emitted with
\* a questionable-tier source (in the coerced case, after output conversion), and
\* the questionable tier sets neither good nor very_good: after the variants the
\* search goes on to the n-gram fallback unless MAXNGRAMSUGS is 0.
C7_QuestionableEmitted ==
    \A c \in Calls :
        QuestionableOnly(c)
            => /\ ~good[c] /\ ~very_good[c]
               /\ (pc[c] = "fallback" \/ InFallbacks(c) \/ Done(c))
                      => \A k \in DOMAIN variants[c] :
                             \A s \in Range(AcceptedQuestionable(c, k)) :
                                 \/ is_forbidden(found_text(s, captype[c]))
                                 \/ \E i \in DOMAIN out[c] :
                                       /\ out[c][i].text = Converted(found_text(s, captype[c]))
                                       /\ out[c][i].source \in QuestionableSources

C7_QuestionableThenFallback ==
    /\ []C7_QuestionableEmitted
    /\ [][\A c \in Calls :
              (QuestionableOnly(c) /\ pc[c] = "fallback" /\ pc'[c] # "fallback")
                  => pc'[c] = IF aff.MAXNGRAMSUGS = 0 THEN "done" ELSE "ngram"]_vars

\* the n-gram matcher runs although a swapchar correction has been emitted
C7_Witness ==
    \E c \in Calls :
        /\ QuestionableOnly(c)
        /\ pc[c] = "ngram"
        /\ \E i \in DOMAIN out[c] : out[c][i].source \in Range(QuestionableEdits)

(***************************************************************************)
(* C9                                                                      *)
(***************************************************************************)
\* the oracle accepts no candidate of call c at any structural tier
NothingAccepted(c) ==
    /\ pc[c] # "new"
    /\ ~(aff.FORCEUCASE # NoFlag /\ guess(word[c]) = "NO"
            /\ is_good_suggestion(capitalize(word[c])[1], TRUE))
    /\ \A k \in DOMAIN variants[c] :
          /\ AcceptedGood(c, k) = <<>>
          /\ AcceptedVeryGood(c, k) = <<>>
          /\ AcceptedQuestionable(c, k) = <<>>
          /\ ~AcceptedCase(c, k)

\* C9: with MAXNGRAMSUGS = 0 neither fallback ever runs, PHONE or not, and a call
\* with no accepted structural candidate ends with the empty output.
C9_NoFallbackWhenDisabled ==
    aff.MAXNGRAMSUGS = 0 =>
        \A c \in Calls :
            /\ ~InFallbacks(c)
            /\ Sources(c) \cap FallbackSources = {}
            /\ (Done(c) /\ NothingAccepted(c)) => out[c] = <<>>

\* a finished call with empty output although a phonetic table is configured and
\* both matchers have candidates for the word
C9_Witness ==
    \E c \in Calls :
        /\ aff.MAXNGRAMSUGS = 0
        /\ aff.PHONE
        /\ Done(c)
        /\ NothingAccepted(c)
        /\ out[c] = <<>>
        /\ ngram_suggestions(word[c], handled[c]) # <<>>
        /\ phonet_suggestions(word[c]) # <<>>

(***************************************************************************)
(* C8                                                                      *)
(***************************************************************************)
\* the (text, source) pairs call c has emitted, in order
Pairs(c) == [i \in DOMAIN out[c] |-> <<out[c][i].text, out[c][i].source>>]

\* C8: two finished calls with the same word on the same, unchanged dictionary have
\* emitted the same sequence of (text, source) pairs.
C8_Determinism ==
    \A c, d \in Calls :
        (Done(c) /\ Done(d) /\ word[c] = word[d]) => Pairs(c) = Pairs(d)

\* the second of two calls with the same word has finished; both emitted two
\* suggestions at least
C8_Witness ==
    /\ Done(1) /\ Done(2)
    /\ word[1] = word[2]
    /\ Len(out[1]) >= 2
    /\ Len(out[2]) >= 2

(***************************************************************************)
(* C10                                                                     *)
(***************************************************************************)
\* the oracle rejects the word of call c and accepts both words of one of its splits
SplitsIntoWords(c) ==
    /\ pc[c] # "new"
    /\ ~Lookup(word[c], TRUE)
    /\ \E i \in DOMAIN twowords(word[c]) :
          Lookup(twowords(word[c])[i][1], FALSE) /\ Lookup(twowords(word[c])[i][2], FALSE)

\* the accepted splits of w joined by a space and, with dash splitting, by a dash
SplitTexts(w) ==
    LET ForPair(pair) ==
            IF Lookup(pair[1], FALSE) /\ Lookup(pair[2], FALSE)
            THEN <<pair[1] \o <<" ">> \o pair[2]>>
                     \o (IF use_dash THEN <<pair[1] \o <<"-">> \o pair[2]>> ELSE <<>>)
            ELSE <<>>
    IN  FlatMap(ForPair, twowords(w))

\* what handle_found makes of a text that is not forbidden
Emitted(c, text) == Converted(found_text(Suggestion(text, "twowords", TRUE), captype[c]))

ForbiddenFound(c, text) == is_forbidden(found_text(Suggestion(text, "twowords", TRUE), captype[c]))

\* the oracle accepts no candidate of call c but splits of its word
OnlySplitsAccepted(c) ==
    \A k \in DOMAIN variants[c] :
        /\ AcceptedGood(c, k) = <<>>
        /\ AcceptedVeryGood(c, k) = <<>>
        /\ ~AcceptedCase(c, k)
        /\ \A s \in Range(AcceptedQuestionable(c, k)) : s.text \in Range(SplitTexts(word[c]))

\* C10 as stated: then the output is the space-joined split, followed by the
\* dash-joined one when dash splitting is enabled, and nothing else.
C10_SplitAndNothingElse ==
    \A c \in Calls :
        (Done(c) /\ SplitsIntoWords(c)) => Texts(c) = SplitTexts(word[c])

\* C10 amended: when NOSPLITSUGS is not set, the FORCEUCASE special case was not taken
\* and no very good suggestion ended the search, the output holds the space-joined
\* split and, with dash splitting, the dash-joined one (case-coerced, output-converted)
\* unless forbidden; it holds nothing else when the oracle accepts no other candidate
\* and MAXNGRAMSUGS is 0.
C10_SplitSuggested ==
    \A c \in Calls :
        (Done(c) /\ SplitsIntoWords(c) /\ idx[c] >= 1 /\ ~very_good[c] /\ ~aff.NOSPLITSUGS)
            => /\ \A t \in Range(SplitTexts(word[c])) :
                      ForbiddenFound(c, t) \/ Emitted(c, t) \in Range(Texts(c))
               /\ (OnlySplitsAccepted(c) /\ aff.MAXNGRAMSUGS = 0)
                      => Range(Texts(c)) \subseteq {Emitted(c, t) : t \in Range(SplitTexts(word[c]))}

\* a finished call for "ab" whose output is "a b", "a-b" and nothing else
C10_Witness ==
    \E c \in Calls :
        /\ Done(c)
        /\ SplitsIntoWords(c)
        /\ use_dash
        /\ OnlySplitsAccepted(c)
        /\ Texts(c) = <<T_a_b, T_a_dash_b>>
        /\ Sources(c) = {"twowords"}

(***************************************************************************)
(* C11                                                                     *)
(***************************************************************************)
\* a loop `for suggestion in suggestions: yield from handle_found(suggestion)` run to
\* its end from handled set and output acc
RECURSIVE HandleAll(_, _, _, _)
HandleAll(acc, cap, suggestions, check_inclusion) ==
    IF suggestions = <<>> THEN acc
    ELSE LET found == handle_found(acc.handled, cap, Head(suggestions), check_inclusion)
         IN  HandleAll([handled |-> found.handled, out |-> acc.out \o found.yields],
                       cap, Tail(suggestions), check_inclusion)

\* a loop of a matcher (lines 214-219, 225-230) run to its end or to its limit
RECURSIVE HandleUpTo(_, _, _, _, _)
HandleUpTo(acc, cap, suggestions, seen, limit) ==
    IF suggestions = <<>> THEN acc
    ELSE LET found == handle_found(acc.handled, cap, Head(suggestions), TRUE)
             next  == [handled |-> found.handled, out |-> acc.out \o found.yields]
         IN  IF seen + Len(found.yields) >= limit THEN next
             ELSE HandleUpTo(next, cap, Tail(suggestions), seen + Len(found.yields), limit)

\* the loop over the variants (lines 178-205) run from variant k on
RECURSIVE HandleVariants(_, _, _, _, _)
HandleVariants(acc, cap, vs, k, flag) ==
    IF k > Len(vs) THEN [acc |-> acc, good |-> flag, very_good |-> FALSE]
    ELSE LET case == IF k > 1 /\ is_good_suggestion(vs[k], TRUE)
                     THEN HandleAll(acc, cap, <<Suggestion(vs[k], "case", TRUE)>>, FALSE)
                     ELSE acc
             goods == HandleAll(case, cap, filter_suggestions(good_permutations(vs[k])), FALSE)
             very  == HandleAll(goods, cap,
                                filter_suggestions(very_good_permutations(vs[k])), FALSE)
             quest == HandleAll(very, cap,
                                filter_suggestions(questionable_permutations(vs[k])), FALSE)
         IN  IF Len(very.out) > Len(goods.out)
             THEN [acc |-> very, good |-> flag, very_good |-> TRUE]
             ELSE HandleVariants(quest, cap, vs, k + 1,
                                 flag \/ Len(goods.out) > Len(case.out))

\* list(suggest_debug(word)): everything one call yields when it runs to its end with
\* no other call in between (lines 111-230)
suggest_debug(w) ==
    LET cap   == corrections(w)[1]
        empty == [handled |-> {}, out |-> <<>>]
        after == HandleVariants(empty, cap, corrections(w)[2], 1, FALSE)
        ngram == HandleUpTo(after.acc, cap,
                            Tagged(ngram_suggestions(w, after.acc.handled), "ngram"),
                            0, aff.MAXNGRAMSUGS)
        phon  == HandleUpTo(ngram, cap, Tagged(phonet_suggestions(w), "phonet"),
                            0, MAXPHONSUGS)
    IN  IF aff.FORCEUCASE # NoFlag /\ cap = "NO" /\ is_good_suggestion(capitalize(w)[1], TRUE)
        THEN HandleAll(empty, cap,
                       <<Suggestion(PyCapitalize(capitalize(w)[1]), "forceucase", TRUE)>>,
                       FALSE).out
        ELSE IF after.very_good \/ after.good \/ aff.MAXNGRAMSUGS = 0
        THEN after.acc.out
        ELSE phon.out

IsPrefix(s, t) == Len(s) <= Len(t) /\ SubSeq(t, 1, Len(s)) = s

\* a step in which call c yields or finishes leaves it with the beginning of what
\* it emits when run alone, and with all of it once it has finished
EmitsAsAlone(c) ==
    (out'[c] # out[c] \/ (pc'[c] = "done" /\ pc[c] # "done"))
        => /\ IsPrefix(out'[c], suggest_debug(word[c]))
           /\ pc'[c] = "done" => out'[c] = suggest_debug(word[c])

\* C11: under every interleaving of the steps of two calls, each call emits exactly
\* the sequence it emits when run alone, no call changes the handled set of the other,
\* and the Suggest object (dictionary, tables, oracle) is never written.
C11_InterleavedCallsIsolated ==
    [][/\ \A c \in Calls : EmitsAsAlone(c)
       /\ UNCHANGED shared
       /\ \A c \in Calls : handled'[c] # handled[c] =>
              \A d \in Calls \ {c} : handled'[d] = handled[d]]_vars

\* two calls for different words are suspended in the middle at the same time, with
\* one text in both handled sets
C11_Witness ==
    /\ pc[1] \in {"questionable", "ngram", "ngram_seen", "phonet", "phonet_seen"}
    /\ pc[2] \in {"questionable", "ngram", "ngram_seen", "phonet", "phonet_seen"}
    /\ yielded[1] /\ yielded[2]
    /\ word[1] # word[2]
    /\ handled[1] \cap handled[2] # {}
    /\ Len(out[1]) < Len(suggest_debug(word[1]))

(***************************************************************************)
(* C12                                                                     *)
(***************************************************************************)
\* C12: no step retracts an emitted suggestion; once very_good is true while variant k
\* is processed it stays true, the generator stays at variant k, only further
\* spaceword suggestions of that variant are emitted, and when it leaves the
\* very-good tier it is finished: no questionable tier of variant k, no later
\* variant, no fallback.
C12_VeryGoodTerminatesAtVariant ==
    [][\A c \in Calls :
          /\ IsPrefix(out[c], out'[c])
          /\ very_good[c] =>
                /\ very_good'[c]
                /\ idx'[c] = idx[c]
                /\ pc'[c] \in {"very_good", "done", "closed"}
                /\ pc'[c] # pc[c] => (pc[c] = "very_good" /\ pc'[c] \in {"done", "closed"})
                /\ \A i \in (Len(out[c]) + 1)..Len(out'[c]) : out'[c][i].source = "spaceword"]_vars

\* a call finished by a very good suggestion of its second variant, with a later
\* variant left unprocessed and a suggestion emitted before the very good one
C12_Witness ==
    \E c \in Calls :
        /\ Done(c)
        /\ very_good[c]
        /\ idx[c] = 2
        /\ idx[c] < Len(variants[c])
        /\ Len(out[c]) >= 2
        /\ out[c][1].source # "spaceword"
        /\ out[c][Len(out[c])].source = "spaceword"

(***************************************************************************)
(* C13                                                                     *)
(***************************************************************************)
\* call c has run the good tier of its k-th variant to the end
PastGood(c, k) ==
    /\ idx[c] >= 1
    /\ \/ k < idx[c]
       \/ k = idx[c] /\ pc[c] \in {"very_good", "questionable", "fallback", "ngram",
                                    "ngram_seen", "phonet", "phonet_seen", "done"}

\* call c has run the very-good tier of its k-th variant to the end
PastVeryGood(c, k) ==
    /\ idx[c] >= 1
    /\ \/ k < idx[c]
       \/ k = idx[c] /\ pc[c] \in {"questionable", "fallback", "ngram",
                                    "ngram_seen", "phonet", "phonet_seen", "done"}

\* C13 as stated: after the good tier of a variant with a candidate the oracle
\* accepts the good flag is true, and likewise very_good after the very-good tier,
\* also when handle_found dropped the candidate.
C13_FlagsFollowAcceptance ==
    \A c \in Calls : \A k \in DOMAIN variants[c] :
        /\ (PastGood(c, k) /\ AcceptedGood(c, k) # <<>>) => good[c]
        /\ (PastVeryGood(c, k) /\ AcceptedVeryGood(c, k) # <<>>) => very_good[c]

\* C13 amended: good is true exactly when a good-tier suggestion has been emitted and
\* very_good exactly when a very-good-tier (spaceword) suggestion has been emitted: an
\* accepted candidate that handle_found drops as forbidden or already handled leaves
\* the flags as they are.
C13_FlagsFollowEmission ==
    \A c \in Calls :
        /\ good[c] <=> (Sources(c) \cap GoodSources # {})
        /\ very_good[c] <=> ("spaceword" \in Sources(c))

\* the n-gram matcher runs although the oracle accepted a good-tier candidate: the
\* candidate was dropped as forbidden and good stayed false
C13_Witness ==
    \E c \in Calls :
        /\ pc[c] = "ngram"
        /\ ~good[c]
        /\ \E k \in DOMAIN variants[c] : \E s \in Range(AcceptedGood(c, k)) :
              is_forbidden(found_text(s, captype[c]))

(***************************************************************************)
(* C14                                                                     *)
(***************************************************************************)
\* the stages in the order of the code: four tiers per variant, then the fallbacks
StageAt(p, i, n) ==
    CASE p \in {"new", "forceucase", "forceucase_return"} -> 0
      [] p = "case"                   -> 4 * (i - 1) + 1
      [] p = "good"                   -> 4 * (i - 1) + 2
      [] p = "very_good"              -> 4 * (i - 1) + 3
      [] p = "questionable"           -> 4 * (i - 1) + 4
      [] p = "fallback"               -> 4 * n + 1
      [] p \in {"ngram", "ngram_seen"}   -> 4 * n + 2
      [] p \in {"phonet", "phonet_seen"} -> 4 * n + 3
      [] OTHER                        -> 4 * n + 4

\* the sources of the suggestions a stage emits
SourcesAt(p) ==
    CASE p = "forceucase"   -> {"forceucase"}
      [] p = "case"         -> {"case"}
      [] p = "good"         -> GoodSources
      [] p = "very_good"    -> {"spaceword"}
      [] p = "questionable" -> QuestionableSources
      [] p = "ngram"        -> {"ngram"}
      [] p = "phonet"       -> {"phonet"}
      [] OTHER              -> {}

\* in the output nothing follows a phonet suggestion but phonet suggestions, and
\* nothing follows an ngram suggestion but ngram and phonet suggestions
FallbacksLast(c) ==
    \A i, j \in DOMAIN out[c] :
        i < j => /\ out[c][i].source = "phonet" => out[c][j].source = "phonet"
                 /\ out[c][i].source = "ngram" => out[c][j].source \in FallbackSources

\* C14: the generator goes through the stages in the strict order variant by variant
\* case, good, very good, questionable, then ngram, then phonet, never back; every
\* suggestion is emitted by the stage of its source, so the output is in stage order.
C14_StageOrder ==
    /\ [](\A c \in Calls : FallbacksLast(c))
    /\ [][\A c \in Calls :
              /\ StageAt(pc'[c], idx'[c], Len(variants'[c]))
                     >= StageAt(pc[c], idx[c], Len(variants[c]))
              /\ \A i \in (Len(out[c]) + 1)..Len(out'[c]) :
                     out'[c][i].source \in SourcesAt(pc[c])]_vars

\* a finished call whose output holds, in this order, a questionable, an ngram and a
\* phonet suggestion, from a word with two variants
C14_Witness ==
    \E c \in Calls :
        /\ Done(c)
        /\ Len(variants[c]) >= 2
        /\ \E i, j, k \in DOMAIN out[c] :
              /\ i < j /\ j < k
              /\ out[c][i].source \in QuestionableSources
              /\ out[c][j].source = "ngram"
              /\ out[c][k].source = "phonet"

(***************************************************************************)
(* C15                                                                     *)
(***************************************************************************)
\* what the filter is to yield for one suggestion: a MultiWordSuggestion whose words
\* the oracle all accepts unbroken gives its space join and, if allow_dash, its dash
\* join, in this order; the joined texts are not looked up
FilteredOne(suggestion) ==
    IF IsMultiWord(suggestion)
    THEN IF \A i \in DOMAIN suggestion.words : Lookup(suggestion.words[i], FALSE)
         THEN <<[text |-> Join(suggestion.words, " "), source |-> suggestion.source,
                 allow_break |-> TRUE]>>
                  \o (IF suggestion.allow_dash
                      THEN <<[text |-> Join(suggestion.words, "-"),
                              source |-> suggestion.source, allow_break |-> TRUE]>>
                      ELSE <<>>)
         ELSE <<>>
    ELSE IF Lookup(suggestion.text, suggestion.allow_break) THEN <<suggestion>> ELSE <<>>

IsSuffix(s, t) == Len(s) <= Len(t) /\ SubSeq(t, Len(t) - Len(s) + 1, Len(t)) = s

\* the permutations of the tier call c is in
TierPermutations(c) ==
    IF pc[c] = "good" THEN good_permutations(variants[c][idx[c]])
    ELSE questionable_permutations(variants[c][idx[c]])

\* in the good and the questionable tier, what is still to be handled is the end of
\* what the filter is to yield for the permutations of the variant
FilteredAsStated(c) ==
    pc[c] \in {"good", "questionable"}
        => IsSuffix(todo[c], FlatMap(FilteredOne, TierPermutations(c)))

\* C15: filter_suggestions accepts a MultiWordSuggestion only if the oracle accepts
\* every word of it with allow_break=False, then yields the space-joined suggestion
\* and, only if allow_dash is true, the dash-joined one after it, without looking the
\* joined texts up; each yielded suggestion goes through handle_found on its own.
C15_MultiWordFilter ==
    /\ [](\A c \in Calls : FilteredAsStated(c))
    /\ [][\A c \in Calls :
              (pc[c] \in {"good", "questionable"} /\ todo'[c] # todo[c] /\ todo[c] # <<>>)
                  => LET found == handle_found(handled[c], captype[c], Head(todo[c]), FALSE)
                     IN  /\ todo'[c] = Tail(todo[c])
                         /\ handled'[c] = found.handled
                         /\ out'[c] = out[c] \o found.yields]_vars

\* a finished call that emitted the dash join of a split without its space join (which
\* is forbidden), the oracle accepting neither joined text
C15_Witness ==
    \E c \in Calls :
        /\ Done(c)
        /\ lookup = {T_a, T_b}
        /\ is_forbidden(T_a_b)
        /\ \E i \in DOMAIN out[c] :
              out[c][i].source = "twowords" /\ out[c][i].text = T_a_dash_b
        /\ \A i \in DOMAIN out[c] : out[c][i].text # T_a_b

(***************************************************************************)
(* C16                                                                     *)
(***************************************************************************)
\* some handled text is a part of text, compared without case
IncludesHandled(c, text) ==
    \E previous \in handled[c] : Contains(lower(previous), lower(text))

\* with no OCONV table, no emitted ngram or phonet text has an earlier emitted text
\* as a part
NoFallbackIncludesEarlier(c) ==
    aff.OCONV = <<>> =>
        \A i, j \in DOMAIN out[c] :
            (i < j /\ out[c][j].source \in FallbackSources)
                => ~Contains(lower(out[c][i].text), lower(out[c][j].text))

\* C16: a matcher's candidate is emitted only if no text handled before it (by any
\* stage, the matchers included) is a part of it, compared without case; a good, very
\* good or questionable candidate that is neither forbidden nor already handled is
\* emitted whatever handled texts are parts of it.
C16_InclusionOnlyInFallbacks ==
    /\ [](\A c \in Calls : NoFallbackIncludesEarlier(c))
    /\ [][\A c \in Calls :
              /\ (pc[c] \in {"ngram", "phonet"} /\ out'[c] # out[c])
                     => \A text \in handled'[c] \ handled[c] : ~IncludesHandled(c, text)
              /\ (pc[c] \in {"good", "very_good", "questionable"}
                      /\ todo[c] # <<>> /\ todo'[c] # todo[c])
                     => LET text == found_text(Head(todo[c]), captype[c])
                        IN  (~is_forbidden(text) /\ text \notin handled[c])
                                => /\ handled'[c] = handled[c] \cup {text}
                                   /\ Len(out'[c]) = Len(out[c]) + 1]_vars

\* a finished call that emitted a questionable suggestion with an earlier suggestion
\* as a part, and in which the n-gram loop dropped a candidate that was neither handled
\* nor forbidden but had a handled text as a part, and emitted a later one
C16_Witness ==
    \E c \in Calls :
        /\ Done(c)
        /\ \E i, j \in DOMAIN out[c] :
              /\ i < j
              /\ out[c][j].source \in QuestionableSources
              /\ Contains(lower(out[c][i].text), lower(out[c][j].text))
        /\ Sources(c) \cap FallbackSources # {}
        /\ \E p, q \in DOMAIN ngram_suggest :
              /\ p < q
              /\ ngram_suggest[p] \notin handled[c]
              /\ ~is_forbidden(ngram_suggest[p])
              /\ IncludesHandled(c, ngram_suggest[p])
              /\ \E i \in DOMAIN roots : roots[i].stem = ngram_suggest[p]
              /\ \E i \in DOMAIN out[c] :
                    out[c][i].source = "ngram" /\ out[c][i].text = ngram_suggest[q]

(***************************************************************************)
(* C17                                                                     *)
(***************************************************************************)
\* some homonym of the text carries the forbidden flag
Forbidden(text) == aff.FORBIDDENWORD # NoFlag /\ has_flag(text, aff.FORBIDDENWORD)

\* the text handle_found is to keep: the found text itself when KEEPCASE protects it,
\* else the coerced text, unless that differs and is forbidden
KeptText(suggestion, cap) ==
    LET protected == aff.KEEPCASE # NoFlag /\ ~aff.CHECKSHARPS
                         /\ has_flag(suggestion.text, aff.KEEPCASE)
        coerced   == coerce(suggestion.text, cap)
    IN  IF protected THEN suggestion.text
        ELSE IF coerced # suggestion.text /\ Forbidden(coerced) THEN suggestion.text
        ELSE coerced

\* C17: whenever a loop hands a suggestion to handle_found, the text that is checked
\* and recorded is the found text itself when KEEPCASE (without CHECKSHARPS) protects
\* it, else the text coerced to the capitalization of the input word, or the found
\* text again when the coerced text differs and is forbidden; the kept text is dropped
\* when it is forbidden and emitted (after output conversion) when it is neither
\* forbidden nor handled nor, in a matcher loop, suppressed by inclusion.
C17_Coercion ==
    [][\A c \in Calls :
          (pc[c] \in {"good", "very_good", "questionable", "ngram", "phonet"}
               /\ todo[c] # <<>> /\ todo'[c] # todo[c])
              => LET kept  == KeptText(Head(todo[c]), captype[c])
                     emits == /\ ~Forbidden(kept)
                              /\ kept \notin handled[c]
                              /\ pc[c] \in {"ngram", "phonet"} => ~IncludesHandled(c, kept)
                 IN  IF emits
                     THEN /\ handled'[c] = handled[c] \cup {kept}
                          /\ out'[c] = out[c] \o <<[Head(todo[c]) EXCEPT !.text = Converted(kept)]>>
                     ELSE /\ handled'[c] = handled[c]
                          /\ out'[c] = out[c]]_vars

\* a finished call for a capitalized word that emitted "ba" in lower case, because
\* "Ba" is forbidden and no KEEPCASE flag protects "ba"
C17_Witness ==
    \E c \in Calls :
        /\ Done(c)
        /\ captype[c] = "INIT"
        /\ Forbidden(T_Ba)
        /\ ~has_flag(T_ba, aff.KEEPCASE)
        /\ T_ba \in handled[c]

(***************************************************************************)
(* C18                                                                     *)
(***************************************************************************)
\* C18: in every step of a call handled keeps its texts; it gains one text when the
\* step emits a suggestion, whose text is the output conversion of the gained text,
\* and none when it emits nothing; a text gained from a loop is the case-coerced text
\* of the candidate, not the converted one; so handled is always as large as the
\* output is long.
C18_HandledGrowsWithOutput ==
    /\ [](\A c \in Calls : Cardinality(handled[c]) = Len(out[c]))
    /\ [][\A c \in Calls :
              /\ handled[c] \subseteq handled'[c]
              /\ IsPrefix(out[c], out'[c])
              /\ IF out'[c] = out[c]
                 THEN handled'[c] = handled[c]
                 ELSE /\ Len(out'[c]) = Len(out[c]) + 1
                      /\ \E text \in handled'[c] \ handled[c] :
                            /\ handled'[c] = handled[c] \cup {text}
                            /\ out'[c][Len(out'[c])].text = Converted(text)
                            /\ (pc[c] \notin {"forceucase", "case"})
                                   => text = KeptText(Head(todo[c]), captype[c])]_vars

\* a finished call with two suggestions, one of them emitted in another text than the
\* one recorded for it, the output conversion having changed it
C18_Witness ==
    \E c \in Calls :
        /\ Done(c)
        /\ Len(out[c]) >= 2
        /\ \E text \in handled[c] :
              /\ Converted(text) # text
              /\ Converted(text) \notin handled[c]
              /\ \E i \in DOMAIN out[c] : out[c][i].text = Converted(text)

(***************************************************************************)
(* C19                                                                     *)
(***************************************************************************)
\* neither matcher has been asked by call c
NoMatcherAsked(c) ==
    /\ ngrams_seen[c] = 0 /\ phonet_seen[c] = 0
    /\ \A i \in DOMAIN todo[c] : todo[c][i].source \notin FallbackSources

\* the phonetic matcher has not been asked by call c
NoPhonetAsked(c) ==
    /\ phonet_seen[c] = 0
    /\ \A i \in DOMAIN todo[c] : todo[c][i].source # "phonet"

\* call c is suspended at the yield of the stage that produced its last suggestion
SuspendedInStage(c) ==
    LET source == out[c][Len(out[c])].source
    IN  CASE source = "forceucase"          -> pc[c] = "forceucase_return"
          [] source = "case"                -> /\ pc[c] = "good"
                                               /\ todo[c] = AcceptedGood(c, idx[c])
          [] source \in GoodSources         -> pc[c] = "good"
          [] source = "spaceword"           -> pc[c] = "very_good"
          [] source \in QuestionableSources -> pc[c] = "questionable"
          [] source = "ngram"               -> pc[c] = "ngram_seen"
          [] OTHER                          -> pc[c] = "phonet_seen"

\* while the consumer holds the last suggestion of call c without asking for the next,
\* or after it has stopped asking, no later stage has been started
NothingAhead(c) ==
    (yielded[c] \/ pc[c] = "closed")
        => /\ out[c] # <<>>
           /\ yielded[c] => SuspendedInStage(c)
           /\ out[c][Len(out[c])].source \notin FallbackSources => NoMatcherAsked(c)
           /\ out[c][Len(out[c])].source = "ngram" => NoPhonetAsked(c)

\* C19: the generator is suspended in the stage that produced the suggestion the
\* consumer holds; the matchers are asked only in steps in which nothing is held and
\* no structural candidate of any variant is left; a call the consumer has stopped
\* pulling from never takes another step.
C19_Laziness ==
    /\ [](\A c \in Calls : NothingAhead(c))
    /\ [][\A c \in Calls :
              /\ (pc[c] = "fallback" /\ pc'[c] = "ngram")
                     => (~yielded[c] /\ idx[c] = Len(variants[c]) /\ todo[c] = <<>>)
              /\ (pc[c] = "closed" \/ pc'[c] = "closed")
                     => UNCHANGED <<word[c], captype[c], variants[c], idx[c], todo[c],
                                    handled[c], good[c], very_good[c], ngrams_seen[c],
                                    phonet_seen[c], out[c]>>]_vars

\* the consumer stopped after the last structural suggestion of a call that would have
\* gone on to emit an ngram suggestion
C19_Witness ==
    \E c \in Calls :
        /\ pc[c] = "closed"
        /\ out[c][Len(out[c])].source \in QuestionableSources
        /\ Len(out[c]) < Len(suggest_debug(word[c]))
        /\ suggest_debug(word[c])[Len(out[c]) + 1].source = "ngram"

\* ---------------------------------------------------------------------------------
\* C20
\* ---------------------------------------------------------------------------------

\* the dash joins of the two-word splits of a variant (pmt.twowords, lines 237 and 303)
SplitDashJoins(w) == {Join(twowords(w)[i], "-") : i \in DOMAIN twowords(w)}

\* the dash joins of the multi-word splits the replacement tables give for a variant
\* (lines 253-260)
ReplDashJoins(w) ==
    {Join(m.words, "-") : m \in {s \in Range(good_permutations(w)) : IsMultiWord(s)}}

\* C20: use_dash is true exactly when TRY contains '-' or 'a'; while it is false no
\* candidate handled with source spaceword or twowords is the dash join of a two-word
\* split of the variant; no candidate handled with source replchars or replchars/ph is
\* the dash join of a multi-word split of a replacement table; and with NOSPLITSUGS
\* set no suggestion with source twowords is in the output.
C20_DashGating ==
    /\ [](use_dash <=> UseDash(aff.TRY))
    /\ [](\A c \in Calls : aff.NOSPLITSUGS => "twowords" \notin Sources(c))
    /\ [][\A c \in Calls :
              (pc[c] \in {"good", "very_good", "questionable"}
                   /\ todo[c] # <<>> /\ out'[c] # out[c])
                  => LET found == Head(todo[c])
                         w     == variants[c][idx[c]]
                     IN  /\ (found.source \in {"spaceword", "twowords"} /\ ~use_dash)
                                => found.text \notin SplitDashJoins(w)
                         /\ found.source \in {"replchars", "replchars/ph"}
                                => found.text \notin ReplDashJoins(w)]_vars

\* a finished call without dash-splitting whose word a replacement table splits into
\* two valid words: the split was suggested with a space, and "a-b" was not suggested
\* although the oracle accepts it
C20_Witness ==
    \E c \in Calls :
        /\ Done(c)
        /\ ~use_dash
        /\ T_a_dash_b \in lookup
        /\ \E k \in DOMAIN variants[c] : T_a_dash_b \in ReplDashJoins(variants[c][k])
        /\ \E k \in DOMAIN variants[c] : T_a_dash_b \in SplitDashJoins(variants[c][k])
        /\ \E i \in DOMAIN out[c] :
               out[c][i].source = "replchars" /\ out[c][i].text = T_a_b
        /\ T_a_dash_b \notin Range(Texts(c))

\* ---------------------------------------------------------------------------------
\* C21
\* ---------------------------------------------------------------------------------

\* the positions of the output of call c that hold a suggestion tagged case
CasePositions(c) == {i \in DOMAIN out[c] : out[c][i].source = "case"}

\* the variants of call c, up to the one it is at, that line 180 lets through
CaseVariants(c) == {k \in 1..idx[c] : AcceptedCase(c, k)}

\* C21: a suggestion tagged case enters the output only in the step that opens a
\* variant which is not the first and which the oracle accepts, it is what handle_found
\* makes of that variant, and the step leaves good and very_good as they were; the
\* step that opens the first variant emits nothing, accepted or not; there are never
\* more case suggestions than accepted variants after the first; and a call whose
\* structural output is case suggestions only has neither flag set.
C21_CaseTier ==
    /\ [](\A c \in Calls :
              /\ Cardinality(CasePositions(c)) <= Cardinality(CaseVariants(c))
              /\ Sources(c) \cap GoodSources = {} => ~good[c]
              /\ "spaceword" \notin Sources(c) => ~very_good[c])
    /\ [][\A c \in Calls :
              /\ (pc[c] = "case" /\ idx[c] = 1) => out'[c] = out[c]
              /\ (out'[c] # out[c] /\ out'[c][Len(out'[c])].source = "case")
                     => LET variant == variants[c][idx[c]]
                            kept    == KeptText(Suggestion(variant, "case", TRUE), captype[c])
                        IN  /\ pc[c] = "case"
                            /\ idx[c] > 1
                            /\ is_good_suggestion(variant, TRUE)
                            /\ out'[c] = out[c] \o <<Suggestion(Converted(kept), "case", TRUE)>>
                            /\ good'[c] = good[c]
                            /\ very_good'[c] = very_good[c]]_vars

\* a finished call for a capitalized word whose first variant and whose lowercase
\* variant the oracle both accepts: one case suggestion, for the second variant, and
\* neither flag set
C21_Witness ==
    \E c \in Calls :
        /\ Done(c)
        /\ Len(variants[c]) >= 2
        /\ is_good_suggestion(variants[c][1], TRUE)
        /\ CaseVariants(c) = {2}
        /\ Cardinality(CasePositions(c)) = 1
        /\ ~good[c]
        /\ ~very_good[c]

====
